---- MODULE Spec2Model ----
(***************************************************************************)
(* Model of chat_app.py: search_and_answer (the research turn: web search, *)
(* context block, prompt, chat call, error handling) and main (the         *)
(* Streamlit script run that appends each turn to the session history).    *)
(*                                                                         *)
(* Text is a sequence of one-character strings.  A Python value that may   *)
(* be text, None or missing from a dict is a tagged record [t, s].  An     *)
(* exception is a record [cls, msg]; NoExc stands for "nothing raised".    *)
(***************************************************************************)
EXTENDS Integers, Sequences, FiniteSets, TLC

VARIABLES
    history,      \* st.session_state.history
    co_client,    \* cached generation client handle: "client" or "None"
    tv_client,    \* cached search client handle: "client" or "None"
    question,     \* the question of the current script run / call
    search_beh,   \* what tv_client.search does when called in this turn
    chat_beh,     \* what co_client.chat does when called in this turn
    ret,          \* observation of the last search_and_answer call
    screen,       \* the chat messages the script run rendered, top to bottom
    submitted     \* ghost: the non-blank questions submitted, with their results

vars == <<history, co_client, tv_client, question, search_beh, chat_beh, ret, screen,
          submitted>>

----------------------------------------------------------------------------
(* Bounds of the model *)

\* longest result list built from the core records
MaxResults == 2
\* longest uniform result list (reaches two-digit index labels)
MaxLabel == 10
\* most turns of one session
MaxTurns == 3

----------------------------------------------------------------------------
(* Text *)

Min(a, b) == IF a < b THEN a ELSE b

\* the characters str.strip() removes
Whitespace == {" ", "\t", "\n", "\r", "\f"}

DigitChars == <<"0", "1", "2", "3", "4", "5", "6", "7", "8", "9">>

RECURSIVE LStrip(_)
LStrip(s) == IF s = <<>> \/ Head(s) \notin Whitespace THEN s ELSE LStrip(Tail(s))

RECURSIVE RStrip(_)
RStrip(s) ==
    IF s = <<>> \/ s[Len(s)] \notin Whitespace THEN s
    ELSE RStrip(SubSeq(s, 1, Len(s) - 1))

\* str.strip()
Strip(s) == RStrip(LStrip(s))

\* str.replace("\n", " ")
ReplaceNewlines(s) == [k \in 1..Len(s) |-> IF s[k] = "\n" THEN " " ELSE s[k]]

\* the slice s[:n]
Slice(s, n) == SubSeq(s, 1, Min(n, Len(s)))

\* the decimal text of a natural number, as an f-string writes it
RECURSIVE FormatInt(_)
FormatInt(n) ==
    IF n < 10 THEN <<DigitChars[n + 1]>>
    ELSE FormatInt(n \div 10) \o <<DigitChars[(n % 10) + 1]>>

\* sep.join(parts)
RECURSIVE Join(_, _)
Join(parts, sep) ==
    IF parts = <<>> THEN <<>>
    ELSE IF Len(parts) = 1 THEN parts[1]
    ELSE parts[1] \o sep \o Join(Tail(parts), sep)

StartsWith(s, p) == Len(s) >= Len(p) /\ SubSeq(s, 1, Len(p)) = p

MissingMsg == <<"M", "i", "s", "s", "i", "n", "g", " ", "A", "P", "I", " ", "c", "l", "i", "e", "n", "t", "s", ".", " ", "C", "h", "e", "c", "k", " ", "A", "P", "I", " ", "k", "e", "y", "s", ".">>
NoInfoMsg == <<"N", "o", " ", "i", "n", "f", "o", "r", "m", "a", "t", "i", "o", "n", " ", "f", "o", "u", "n", "d", " ", "o", "n", " ", "t", "h", "i", "s", " ", "t", "o", "p", "i", "c", ".">>
ErrorPrefix == <<"E", "r", "r", "o", "r", ":", " ">>
NoTitle == <<"N", "o", " ", "t", "i", "t", "l", "e">>
PromptHead == <<"A", "n", "s", "w", "e", "r", " ", "t", "h", "e", " ", "q", "u", "e", "s", "t", "i", "o", "n", ":", " ">>
PromptUse == <<"U", "s", "e", " ", "o", "n", "l", "y", " ", "t", "h", "e", " ", "f", "o", "l", "l", "o", "w", "i", "n", "g", " ", "s", "o", "u", "r", "c", "e", "s", " ", "a", "n", "d", " ", "c", "i", "t", "e", " ", "t", "h", "e", "m", " ", "i", "n", "l", "i", "n", "e", " ", "a", "s", " ", "[", "1", "]", ",", " ", "[", "2", "]", ",", " ", "e", "t", "c", ".", "\n", "\n">>
PromptReq == <<"R", "e", "q", "u", "i", "r", "e", "m", "e", "n", "t", "s", ":", "\n", "-", " ", "B", "e", " ", "f", "a", "c", "t", "u", "a", "l", "\n", "-", " ", "C", "i", "t", "e", " ", "s", "o", "u", "r", "c", "e", "s", " ", "u", "s", "i", "n", "g", " ", "[", "n", "]", "\n", "-", " ", "I", "n", "c", "l", "u", "d", "e", " ", "a", " ", "'", "S", "o", "u", "r", "c", "e", "s", "'", " ", "s", "e", "c", "t", "i", "o", "n", " ", "w", "i", "t", "h", " ", "t", "i", "t", "l", "e", " ", "a", "n", "d", " ", "U", "R", "L", "\n">>

----------------------------------------------------------------------------
(* Python values and exceptions *)

Str(s) == [t |-> "str", s |-> s]
None == [t |-> "None", s |-> <<>>]
Absent == [t |-> "absent", s |-> <<>>]

\* dict.get(key, default) on a result record
Get(d, key, default) == IF d[key].t = "absent" THEN default ELSE d[key]

NoExc == [cls |-> "", msg |-> <<>>]
Exc(cls, msg) == [cls |-> cls, msg |-> msg]

\* calling a method on a value that is not text (None has no strip/replace)
NoStrip == Exc("AttributeError", <<"'", "N", "o", "n", "e", "T", "y", "p", "e", "'", " ", "o", "b", "j", "e", "c", "t", " ", "h", "a", "s", " ", "n", "o", " ", "a", "t", "t", "r", "i", "b", "u", "t", "e", " ", "'", "s", "t", "r", "i", "p", "'">>)
NoReplace == Exc("AttributeError", <<"'", "N", "o", "n", "e", "T", "y", "p", "e", "'", " ", "o", "b", "j", "e", "c", "t", " ", "h", "a", "s", " ", "n", "o", " ", "a", "t", "t", "r", "i", "b", "u", "t", "e", " ", "'", "r", "e", "p", "l", "a", "c", "e", "'">>)
NoSearch == Exc("AttributeError", <<"'", "N", "o", "n", "e", "T", "y", "p", "e", "'", " ", "o", "b", "j", "e", "c", "t", " ", "h", "a", "s", " ", "n", "o", " ", "a", "t", "t", "r", "i", "b", "u", "t", "e", " ", "'", "s", "e", "a", "r", "c", "h", "'">>)
NoChat == Exc("AttributeError", <<"'", "N", "o", "n", "e", "T", "y", "p", "e", "'", " ", "o", "b", "j", "e", "c", "t", " ", "h", "a", "s", " ", "n", "o", " ", "a", "t", "t", "r", "i", "b", "u", "t", "e", " ", "'", "c", "h", "a", "t", "'">>)

\* the classes derived from Exception that occur in the model
ExceptionClasses == {"AttributeError", "ConnectionError", "ValueError"}

Ok(v) == [exc |-> NoExc, val |-> v]
Raise(e) == [exc |-> e, val |-> <<>>]

----------------------------------------------------------------------------
(* search_and_answer *)

\* content[:800]
SnippetLimit == 800

\* one call of a collaborator: which operation, its argument, whether it returned
CallEvent(op, arg, ok) == [op |-> op, arg |-> arg, ok |-> ok]

\* what one call of search_and_answer did
Ret(text, sources, calls, items, context, caught) ==
    [called |-> TRUE, text |-> text, sources |-> sources, calls |-> calls,
     items |-> items, context |-> context, caught |-> caught, escaped |-> NoExc]

\* the call ended by an exception leaving search_and_answer
Escaped(e, calls) ==
    [called |-> TRUE, text |-> <<>>, sources |-> <<>>, calls |-> calls,
     items |-> <<>>, context |-> <<>>, caught |-> NoExc, escaped |-> e]

NotCalled ==
    [called |-> FALSE, text |-> <<>>, sources |-> <<>>, calls |-> <<>>,
     items |-> <<>>, context |-> <<>>, caught |-> NoExc, escaped |-> NoExc]

\* variant: the guard asks for both handles to be absent
MissingBoth(co, tv) == co = "None" /\ tv = "None"

\* if not co_client or not tv_client
MissingClients(co, tv) == co = "None" \/ tv = "None"

\* variant: a failed search is tried a second time
SearchStepRetry(tv, q, beh) ==
    IF tv = "None" THEN [out |-> Raise(NoSearch), calls |-> <<>>]
    ELSE IF beh.exc # NoExc
         THEN [out |-> Raise(beh.exc),
               calls |-> <<CallEvent("search", q, FALSE), CallEvent("search", q, FALSE)>>]
         ELSE [out |-> Ok(beh.resp), calls |-> <<CallEvent("search", q, TRUE)>>]

\* tv_client.search(query=question, ...): the outcome and the calls made
SearchStep(tv, q, beh) ==
    IF tv = "None" THEN [out |-> Raise(NoSearch), calls |-> <<>>]
    ELSE IF beh.exc # NoExc
         THEN [out |-> Raise(beh.exc), calls |-> <<CallEvent("search", q, FALSE)>>]
         ELSE [out |-> Ok(beh.resp), calls |-> <<CallEvent("search", q, TRUE)>>]

NoList == [t |-> "list", items |-> <<>>]

\* search_result.get("results", []) if isinstance(search_result, dict) else []
ExtractSources(search_result) ==
    IF search_result.isdict
    THEN IF search_result.results.t = "absent" THEN NoList ELSE search_result.results
    ELSE NoList

\* variant: only a missing list short-circuits, an empty one does not
NoSourcesOnlyNone(sources) == sources.t # "list"

\* not sources
NoSources(sources) == sources.t # "list" \/ sources.items = <<>>

\* variant: the title is not stripped
TitleNoStrip(s) ==
    LET v == Get(s, "title", Str(NoTitle))
    IN  IF v.t = "str" THEN Ok(v.s) ELSE Raise(NoStrip)

\* s.get("title", "No title").strip()
Title(s) ==
    LET v == Get(s, "title", Str(NoTitle))
    IN  IF v.t = "str" THEN Ok(Strip(v.s)) ELSE Raise(NoStrip)

\* s.get("url", "").strip()
Url(s) ==
    LET v == Get(s, "url", Str(<<>>))
    IN  IF v.t = "str" THEN Ok(Strip(v.s)) ELSE Raise(NoStrip)

\* variant: the content is cut before it is stripped
SnippetCutFirst(s) ==
    LET v == Get(s, "content", Str(<<>>))
    IN  IF v.t = "str" THEN Ok(Strip(Slice(ReplaceNewlines(v.s), SnippetLimit)))
        ELSE Raise(NoReplace)

\* s.get("content", "").replace("\n", " ").strip()[:800]
Snippet(s) ==
    LET v == Get(s, "content", Str(<<>>))
    IN  IF v.t = "str" THEN Ok(Slice(Strip(ReplaceNewlines(v.s)), SnippetLimit))
        ELSE Raise(NoReplace)

\* variant: enumerate without start=1
IndexFromZero(k) == k - 1

\* enumerate(sources, start=1): the index of the k-th result
IndexOf(k) == k

\* one pass of the loop body up to the f-string: the three fields, in order
Item(k, s) ==
    LET title == Title(s)
        url == Url(s)
        content == Snippet(s)
    IN  IF title.exc # NoExc THEN Raise(title.exc)
        ELSE IF url.exc # NoExc THEN Raise(url.exc)
        ELSE IF content.exc # NoExc THEN Raise(content.exc)
        ELSE Ok([index |-> IndexOf(k), title |-> title.val, url |-> url.val,
                 snippet |-> content.val])

\* f"[{i}] {title}\nURL: {url}\n{content}\n"
ContextPart(it) ==
    <<"[">> \o FormatInt(it.index) \o <<"]", " ">> \o it.title \o <<"\n">>
    \o <<"U", "R", "L", ":", " ">> \o it.url \o <<"\n">> \o it.snippet \o <<"\n">>

\* the loop over the results: it stops at the first result that raises
Items(list) ==
    LET outs == [k \in 1..Len(list) |-> Item(k, list[k])]
        bad == {k \in 1..Len(list) : outs[k].exc # NoExc}
    IN  IF bad # {}
        THEN Raise(outs[CHOOSE k \in bad : \A j \in bad : k <= j].exc)
        ELSE Ok([k \in 1..Len(list) |-> outs[k].val])

\* "\n\n".join(context_parts)
Context(items) == Join([k \in 1..Len(items) |-> ContextPart(items[k])], <<"\n", "\n">>)

\* the prompt of step 3
Prompt(q, context) ==
    PromptHead \o q \o <<"\n", "\n">> \o PromptUse \o context \o <<"\n", "\n">> \o PromptReq

\* co_client.chat(model=COHERE_MODEL, message=prompt, temperature=0.3)
ChatStep(co, prompt, beh) ==
    IF co = "None" THEN [out |-> Raise(NoChat), calls |-> <<>>]
    ELSE IF beh.exc # NoExc
         THEN [out |-> Raise(beh.exc), calls |-> <<CallEvent("chat", prompt, FALSE)>>]
         ELSE [out |-> Ok(beh.resp), calls |-> <<CallEvent("chat", prompt, TRUE)>>]

\* getattr(resp, "text", str(resp))
ResponseText(resp) == IF resp.hastext THEN resp.text ELSE resp.repr

\* variant: the loop writes the cut content back into the result
ReturnedCut(list) ==
    [k \in 1..Len(list) |->
        [list[k] EXCEPT !.content =
            IF @.t = "str" THEN Str(Slice(Strip(ReplaceNewlines(@.s)), SnippetLimit)) ELSE @]]

\* return text, sources
ReturnedSources(list) == list

\* variant: the handler takes the collaborators' network errors only
CatchesConnectionOnly(e) == e.cls = "ConnectionError"

\* except Exception: which exceptions the handler takes
Catches(e) == e.cls \in ExceptionClasses

\* variant: the handler returns the bare message
HandlerNoPrefix(e) == [text |-> e.msg, sources |-> <<>>]

\* return f"Error: {e}", []
Handler(e) == [text |-> ErrorPrefix \o e.msg, sources |-> <<>>]

\* the try statement: an exception raised in its body after the calls made so far
Except(e, calls) ==
    IF Catches(e)
    THEN Ret(Handler(e).text, Handler(e).sources, calls, <<>>, <<>>, e)
    ELSE Escaped(e, calls)

search_and_answer(q, co, tv, sbeh, cbeh) ==
    IF MissingClients(co, tv) THEN Ret(MissingMsg, <<>>, <<>>, <<>>, <<>>, NoExc)
    ELSE
    LET search == SearchStep(tv, q, sbeh) IN
    IF search.out.exc # NoExc THEN Except(search.out.exc, search.calls)
    ELSE
    LET sources == ExtractSources(search.out.val) IN
    IF NoSources(sources) THEN Ret(NoInfoMsg, <<>>, search.calls, <<>>, <<>>, NoExc)
    ELSE
    LET items == Items(sources.items) IN
    IF items.exc # NoExc THEN Except(items.exc, search.calls)
    ELSE
    LET context == Context(items.val)
        chat == ChatStep(co, Prompt(q, context), cbeh)
        calls == search.calls \o chat.calls
    IN  IF chat.out.exc # NoExc
        THEN [Except(chat.out.exc, calls) EXCEPT !.items = items.val, !.context = context]
        ELSE Ret(ResponseText(chat.out.val), ReturnedSources(sources.items), calls,
                 items.val, context, NoExc)

----------------------------------------------------------------------------
(* main: one script run of the Streamlit session *)

\* init_clients(), cached for the process: both handles, or (None, None) when
\* a constructor raised.  A run stopped by st.stop() or by the ImportError
\* never reaches st.chat_input, so no question is submitted in it.
init_clients == {<<"client", "client">>, <<"None", "None">>}

\* if question and question.strip()
Accepted(q) == q.t = "str" /\ q.s # <<>> /\ Strip(q.s) # <<>>

Entry(q, answer, sources) == [question |-> q, answer |-> answer, sources |-> sources]

\* variant: the newest entry is put first
PrependEntry(h, e) == <<e>> \o h

\* st.session_state.history.append({...})
AppendEntry(h, e) == Append(h, e)

\* the display loop: one user and one assistant message per entry, in list order
Display(h) ==
    [k \in 1..Len(h) |->
        [user |-> h[k].question, assistant |-> h[k].answer,
         expander |-> h[k].sources # <<>>]]

----------------------------------------------------------------------------
(* Inputs *)

Fill(n) == [k \in 1..n |-> "a"]

Rec(title, url, content) == [title |-> title, url |-> url, content |-> content]

BaseRec == Rec(Str(<<"T">>), Str(<<"u">>), Str(<<"c">>))

Leads == {<<>>, <<" ">>, <<"\n">>}
Tails == {<<>>, <<" ">>, <<"\n", "b">>, <<"[", "1", "]">>}
FillLens == {0, 1, SnippetLimit - 1, SnippetLimit, SnippetLimit + 1}

Contents ==
    {Absent, None}
    \cup {Str(lead \o Fill(n) \o tail) : lead \in Leads, n \in FillLens, tail \in Tails}

Titles ==
    {Absent, None, Str(<<>>), Str(<<" ">>), Str(<<"T">>), Str(<<" ", "T", "\n">>),
     Str(<<"[", "2", "]">>)}

Urls == {Absent, None, Str(<<"u">>), Str(<<" ", "u", "\n">>)}

\* the records that vary one field of the base record
RichRecords ==
    {Rec(t, BaseRec.url, BaseRec.content) : t \in Titles}
    \cup {Rec(BaseRec.title, u, BaseRec.content) : u \in Urls}
    \cup {Rec(BaseRec.title, BaseRec.url, c) : c \in Contents}

CoreRecords ==
    {BaseRec,
     Rec(Absent, Str(<<"u">>), Str(<<"s", "e", "e", " ", "[", "1", "]">>)),
     Rec(None, Str(<<"u">>), Str(<<"c">>))}

ResultLists ==
    {<<r>> : r \in RichRecords}
    \cup UNION {[1..n -> CoreRecords] : n \in 1..MaxResults}
    \cup {[k \in 1..n |-> BaseRec] : n \in 1..MaxLabel}

SearchErrors == {Exc("ConnectionError", <<>>), Exc("ValueError", <<"x">>)}

Response(isdict, results) == [isdict |-> isdict, results |-> results]
ListOf(l) == [t |-> "list", items |-> l]
NoResults == [t |-> "absent", items |-> <<>>]
NoneResults == [t |-> "None", items |-> <<>>]

Returns(resp) == [exc |-> NoExc, resp |-> resp]
Raises(e, resp) == [exc |-> e, resp |-> resp]

EmptyResponses ==
    {Response(FALSE, NoResults), Response(TRUE, NoResults), Response(TRUE, NoneResults),
     Response(TRUE, ListOf(<<>>))}

SearchBehs(errors, empties, lists) ==
    {Raises(e, Response(FALSE, NoResults)) : e \in errors}
    \cup {Returns(r) : r \in empties}
    \cup {Returns(Response(TRUE, ListOf(l))) : l \in lists}

ChatResp(hastext, text, repr) == [hastext |-> hastext, text |-> text, repr |-> repr]

ChatBehs ==
    {Raises(Exc("ConnectionError", <<"x">>), ChatResp(FALSE, <<>>, <<>>)),
     Returns(ChatResp(TRUE, <<"A", "[", "1", "]">>, <<"R">>)),
     Returns(ChatResp(FALSE, <<>>, <<"R">>))}

Handles == {"client", "None"}

NoBeh == Returns(Response(FALSE, NoResults))
NoChatBeh == Returns(ChatResp(FALSE, <<>>, <<>>))

----------------------------------------------------------------------------
(* SpecFn: search_and_answer as a function of its arguments and of what the *)
(* two collaborators do when called                                         *)

InitFn ==
    /\ history = <<>>
    /\ screen = <<>>
    /\ submitted = <<>>
    /\ co_client \in Handles
    /\ tv_client \in Handles
    /\ question \in {Str(<<"q">>), Str(<<"[", "7", "]", "?">>)}
    /\ search_beh \in SearchBehs(SearchErrors, EmptyResponses, ResultLists)
    /\ chat_beh \in ChatBehs
    /\ ret = NotCalled

CallFn ==
    /\ ~ret.called
    /\ ret' = search_and_answer(question.s, co_client, tv_client, search_beh, chat_beh)
    /\ UNCHANGED <<history, co_client, tv_client, question, search_beh, chat_beh, screen,
                   submitted>>

NextFn == CallFn

SpecFn == InitFn /\ [][NextFn]_vars

----------------------------------------------------------------------------
(* Spec: the session *)

SessionLists ==
    {<<BaseRec>>,
     <<Rec(Str(<<" ", "T">>), Str(<<"u">>), Str(<<"c", "\n", "d">>)), BaseRec>>,
     <<Rec(None, Str(<<"u">>), Str(<<"c">>))>>}

SessionSearchBehs ==
    SearchBehs({Exc("ConnectionError", <<"x">>)},
               {Response(FALSE, NoResults), Response(TRUE, ListOf(<<>>))}, SessionLists)

SessionChatBehs == {b \in ChatBehs : b.exc # NoExc \/ b.resp.hastext}

\* a submitted question that has a character that is not whitespace
NonBlank(q) == q.t = "str" /\ \E k \in 1..Len(q.s) : q.s[k] \notin Whitespace

Questions == {Str(<<"q">>), Str(<<"r", " ">>)}
Blanks == {None, Str(<<"\n", " ">>)}

Init ==
    /\ history = <<>>
    /\ screen = <<>>
    /\ submitted = <<>>
    /\ \E c \in init_clients : co_client = c[1] /\ tv_client = c[2]
    /\ question = None
    /\ search_beh = NoBeh
    /\ chat_beh = NoChatBeh
    /\ ret = NotCalled

\* a script run with a question that is answered
Ask(q, sbeh, cbeh) ==
    /\ Accepted(q)
    /\ Len(submitted) < MaxTurns
    /\ question' = q
    /\ search_beh' = sbeh
    /\ chat_beh' = cbeh
    /\ ret' = search_and_answer(q.s, co_client, tv_client, sbeh, cbeh)
    /\ history' = IF ret'.escaped = NoExc
                  THEN AppendEntry(history, Entry(q.s, ret'.text, ret'.sources))
                  ELSE history
    /\ screen' = IF ret'.escaped = NoExc THEN Display(history') ELSE screen
    /\ submitted' = IF NonBlank(q)
                    THEN Append(submitted, Entry(q.s, ret'.text, ret'.sources))
                    ELSE submitted
    /\ UNCHANGED <<co_client, tv_client>>

\* a script run without a question, or with a blank one
Rerun(q) ==
    /\ ~Accepted(q)
    /\ question' = q
    /\ ret' = NotCalled
    /\ screen' = Display(history)
    /\ submitted' = IF NonBlank(q) THEN Append(submitted, Entry(q.s, <<>>, <<>>))
                    ELSE submitted
    /\ UNCHANGED <<history, co_client, tv_client, search_beh, chat_beh>>

Next ==
    \/ \E q \in Questions, sbeh \in SessionSearchBehs, cbeh \in SessionChatBehs :
          Ask(q, sbeh, cbeh)
    \/ \E q \in Blanks : Rerun(q)

Spec == Init /\ [][Next]_vars

----------------------------------------------------------------------------
(* Observations used by the properties *)

Present == co_client = "client" /\ tv_client = "client"

ErrorColon == <<"E", "r", "r", "o", "r", ":">>

Count(calls, op) == Cardinality({k \in 1..Len(calls) : calls[k].op = op})

\* the search call of this turn returned, and what it returned
SearchReturned == search_beh.exc = NoExc
Returned == search_beh.resp

ReturnedEmpty ==
    /\ SearchReturned
    /\ \/ ~Returned.isdict
       \/ Returned.results.t = "absent"
       \/ Returned.results.t = "list" /\ Returned.results.items = <<>>

ReturnedList ==
    /\ SearchReturned
    /\ Returned.isdict
    /\ Returned.results.t = "list"
    /\ Returned.results.items # <<>>

Results == Returned.results.items

\* a field of a result that is present and is not text
NotText(v) == v.t = "None"

Unprocessable(s) == NotText(s.title) \/ NotText(s.url) \/ NotText(s.content)

\* the field of a result as text: an absent one reads as the empty text
TextOf(v) == IF v.t = "str" THEN v.s ELSE <<>>

----------------------------------------------------------------------------

----------------------------------------------------------------------------
(* Properties of one call of search_and_answer (SpecFn) *)

\* C1: with both clients present, when the search call returns an empty result
\* (not a mapping, no "results" key, or an empty list), the call returns the
\* "no information found" message and no sources, and chat is called zero times.
C1_EmptySearchShortCircuits ==
    (ret.called /\ Present /\ ReturnedEmpty) =>
        /\ ret.escaped = NoExc
        /\ ret.text = NoInfoMsg
        /\ ret.sources = <<>>
        /\ Count(ret.calls, "chat") = 0

C1_Witness ==
    /\ ret.called /\ Present /\ ReturnedEmpty
    /\ ~Returned.isdict
    /\ Count(ret.calls, "search") = 1
    /\ ret.text = NoInfoMsg

\* C2: with both clients present, when the search call raises, the returned text
\* starts with "Error:", the sources are empty and chat is never called.
C2_SearchErrorReported ==
    (ret.called /\ Present /\ ~SearchReturned) =>
        /\ ret.escaped = NoExc
        /\ StartsWith(ret.text, ErrorColon)
        /\ ret.sources = <<>>
        /\ Count(ret.calls, "chat") = 0

C2_Witness ==
    /\ ret.called /\ Present /\ ~SearchReturned
    /\ search_beh.exc.msg = <<"x">>
    /\ ret.text = <<"E", "r", "r", "o", "r", ":", " ", "x">>

\* an exception is raised in steps 2-5 of this call
RaisesInside ==
    /\ Present
    /\ \/ ~SearchReturned
       \/ ReturnedList /\ \E k \in 1..Len(Results) : Unprocessable(Results[k])
       \/ ReturnedList /\ chat_beh.exc # NoExc

\* C3: no exception leaves search_and_answer; whenever one was raised inside
\* (search raising, chat raising after a non-empty search, a result that cannot
\* be processed) the returned text starts with "Error:" and the sources are empty.
C3_NoExceptionEscapes ==
    ret.called =>
        /\ ret.escaped = NoExc
        /\ RaisesInside <=> ret.caught # NoExc
        /\ ret.caught # NoExc => StartsWith(ret.text, ErrorColon) /\ ret.sources = <<>>

C3_Witness ==
    /\ ret.called /\ Present /\ ReturnedList
    /\ \E k \in 1..Len(Results) : NotText(Results[k].title)
    /\ ret.caught.cls = "AttributeError"
    /\ StartsWith(ret.text, ErrorColon)
    /\ ret.sources = <<>>

\* C8: when either client handle is absent the call returns the "missing API
\* clients" message and no sources, and neither collaborator is called.
C8_MissingClientsMessage ==
    (ret.called /\ ~Present) =>
        /\ ret.escaped = NoExc
        /\ ret.text = MissingMsg
        /\ ret.sources = <<>>
        /\ ret.calls = <<>>

C8_Witness ==
    /\ ret.called
    /\ co_client = "client" /\ tv_client = "None"
    /\ ret.text = MissingMsg
    /\ ret.calls = <<>>

\* the call went through: non-empty search, context built, chat returned
Succeeded ==
    /\ ret.called /\ Present /\ ReturnedList
    /\ ret.caught = NoExc /\ ret.escaped = NoExc

\* C9: when the search returns a non-empty list and the chat call succeeds, the
\* returned sources are the results the search client returned: same order, same
\* title, url and content, nothing cut.
C9_SourcesAreOriginals ==
    Succeeded =>
        /\ Len(ret.sources) = Len(Results)
        /\ \A k \in 1..Len(Results) : ret.sources[k] = Results[k]

C9_Witness ==
    /\ Succeeded
    /\ \E k \in 1..Len(Results) :
          /\ Len(TextOf(Results[k].content)) > SnippetLimit
          /\ Len(ret.items[k].snippet) = SnippetLimit
          /\ ret.sources[k].content = Results[k].content

----------------------------------------------------------------------------
(* The context block (SpecFn) *)

\* a context block was built in this call
Built == ret.called /\ ret.escaped = NoExc /\ ret.items # <<>>

IsDigit(c) == \E d \in 1..10 : DigitChars[d] = c

DigitValue(c) == (CHOOSE d \in 1..10 : DigitChars[d] = c) - 1

\* the positions where a bracketed index label, "[" digits "]", starts in s
LabelStarts(s) ==
    {p \in 1..Len(s) :
        /\ s[p] = "["
        /\ \E q \in (p + 2)..Len(s) :
              s[q] = "]" /\ \A k \in (p + 1)..(q - 1) : IsDigit(s[k])}

LabelEnd(s, p) ==
    CHOOSE q \in (p + 2)..Len(s) : s[q] = "]" /\ \A k \in (p + 1)..(q - 1) : IsDigit(s[k])

RECURSIVE ParseInt(_, _, _)
ParseInt(s, a, b) == IF a > b THEN 0 ELSE ParseInt(s, a, b - 1) * 10 + DigitValue(s[b])

RECURSIVE Sorted(_)
Sorted(S) ==
    IF S = {} THEN <<>>
    ELSE LET m == CHOOSE x \in S : \A y \in S : x <= y
         IN  <<m>> \o Sorted(S \ {m})

\* the numbers of the bracketed index labels of s, in the order they appear
Labels(s) ==
    LET starts == Sorted(LabelStarts(s))
    IN  [k \in 1..Len(starts) |-> ParseInt(s, starts[k] + 1, LabelEnd(s, starts[k]) - 1)]

OneToN(n) == [k \in 1..n |-> k]

HasBracket(v) == \E k \in 1..Len(TextOf(v)) : TextOf(v)[k] = "["

\* the label the k-th block is to begin with
LabelText(k) == <<"[">> \o FormatInt(k) \o <<"]", " ">>

\* the length of the k-th block: label, title, "URL: " line, snippet line
BlockLen(items, k) ==
    Len(LabelText(k)) + Len(items[k].title) + 1 + 5 + Len(items[k].url) + 1
    + Len(items[k].snippet) + 1

\* where the k-th block starts in the joined text (0-based), blocks two newlines apart
RECURSIVE BlockStart(_, _)
BlockStart(items, k) ==
    IF k = 1 THEN 0 ELSE BlockStart(items, k - 1) + BlockLen(items, k - 1) + 2

\* C4 as stated: the context block holds exactly N bracketed index labels,
\* numbered 1..N in order, whatever the titles, urls and contents are.
C4_ExactlyNLabels == Built => Labels(ret.context) = OneToN(Len(Results))

\* C4 as amended: the context block is N blocks in the order of the results, the
\* k-th beginning with the label [k] followed by the k-th title; when no title,
\* url or content holds a "[", these are the only bracketed index labels.
C4_BlocksLabelled ==
    Built =>
        LET n == Len(Results)
            ctx == ret.context
        IN  /\ Len(ret.items) = n
            /\ Len(ctx) = BlockStart(ret.items, n) + BlockLen(ret.items, n)
            /\ \A k \in 1..n :
                  LET at == BlockStart(ret.items, k)
                      lab == LabelText(k)
                  IN  /\ ret.items[k].index = k
                      /\ SubSeq(ctx, at + 1, at + Len(lab)) = lab
                      /\ SubSeq(ctx, at + Len(lab) + 1,
                                at + Len(lab) + Len(ret.items[k].title))
                            = ret.items[k].title
            /\ (\A k \in 1..n : ~HasBracket(Results[k].title)
                                /\ ~HasBracket(Results[k].url)
                                /\ ~HasBracket(Results[k].content))
                  => Labels(ctx) = OneToN(n)

C4_Witness ==
    /\ Built
    /\ Len(Results) = 2
    /\ HasBracket(Results[2].content)
    /\ Labels(ret.context) = <<1, 2, 1>>

\* the content of a result with each newline replaced by a space
Collapsed(s) ==
    LET c == TextOf(s.content)
    IN  [k \in 1..Len(c) |-> IF c[k] = "\n" THEN " " ELSE c[k]]

\* how many whitespace characters c begins with, and ends with
LeadingWs(c) == Cardinality({k \in 1..Len(c) : \A j \in 1..k : c[j] \in Whitespace})
TrailingWs(c) == Cardinality({k \in 1..Len(c) : \A j \in k..Len(c) : c[j] \in Whitespace})

TrimmedLen(c) == IF LeadingWs(c) = Len(c) THEN 0 ELSE Len(c) - LeadingWs(c) - TrailingWs(c)

SnippetBounded(k) ==
    /\ Len(ret.items[k].snippet) <= SnippetLimit
    /\ \A j \in 1..Len(ret.items[k].snippet) : ret.items[k].snippet[j] # "\n"

\* C5 as stated: a content longer than 800 characters after newline collapse
\* gives the first 800 characters of the collapsed string; every snippet has at
\* most 800 characters and no newline.
C5_FirstOfCollapsed ==
    Built =>
        \A k \in 1..Len(Results) :
            /\ Len(Collapsed(Results[k])) > SnippetLimit
                  => ret.items[k].snippet = SubSeq(Collapsed(Results[k]), 1, SnippetLimit)
            /\ SnippetBounded(k)

\* C5 as amended: the snippet is the collapsed content without its leading and
\* trailing whitespace, cut to its first 800 characters when that is longer than
\* 800; every snippet has at most 800 characters and no newline.
C5_FirstOfTrimmed ==
    Built =>
        \A k \in 1..Len(Results) :
            LET c == Collapsed(Results[k])
                snippet == ret.items[k].snippet
            IN  /\ Len(snippet) = Min(TrimmedLen(c), SnippetLimit)
                /\ \A j \in 1..Len(snippet) : snippet[j] = c[LeadingWs(c) + j]
                /\ SnippetBounded(k)

C5_Witness ==
    /\ Built
    /\ \E k \in 1..Len(Results) :
          /\ Len(Collapsed(Results[k])) > SnippetLimit
          /\ LeadingWs(Collapsed(Results[k])) = 1
          /\ Len(ret.items[k].snippet) = SnippetLimit
          /\ ret.items[k].snippet # SubSeq(Collapsed(Results[k]), 1, SnippetLimit)

\* t is s without its leading and trailing whitespace
IsTrimOf(t, s) ==
    IF t = <<>> THEN \A j \in 1..Len(s) : s[j] \in Whitespace
    ELSE /\ t[1] \notin Whitespace
         /\ t[Len(t)] \notin Whitespace
         /\ \E a \in 0..(Len(s) - Len(t)) :
               /\ SubSeq(s, a + 1, a + Len(t)) = t
               /\ \A j \in 1..a : s[j] \in Whitespace
               /\ \A j \in (a + Len(t) + 1)..Len(s) : s[j] \in Whitespace

\* C6 as stated: the title in the block is the trimmed title, and is "No title"
\* whenever the title is absent or empty.
C6_NoTitleWhenEmpty ==
    Built =>
        \A k \in 1..Len(Results) :
            IF Results[k].title.t = "absent" \/ Results[k].title.s = <<>>
            THEN ret.items[k].title = NoTitle
            ELSE IsTrimOf(ret.items[k].title, Results[k].title.s)

\* C6 as amended: the title in the block is "No title" when the result has no
\* title, and otherwise the title without its leading and trailing whitespace,
\* so that an empty or all-whitespace title gives an empty title.
C6_NoTitleWhenAbsent ==
    Built =>
        \A k \in 1..Len(Results) :
            IF Results[k].title.t = "absent"
            THEN ret.items[k].title = NoTitle
            ELSE IsTrimOf(ret.items[k].title, Results[k].title.s)

C6_Witness ==
    /\ Built
    /\ \E k \in 1..Len(Results) :
          /\ Results[k].title = Str(<<>>)
          /\ ret.items[k].title = <<>>

----------------------------------------------------------------------------
(* Properties of the session (Spec) *)

\* C7: the history holds one entry per non-blank question submitted, in the
\* order of submission, each with that turn's question, returned text and
\* returned sources; the messages are rendered in that order; a turn that ended
\* in a caught error is recorded with empty sources; earlier entries stay as
\* they were.
C7_HistoryIsSubmissions ==
    /\ Len(history) = Len(submitted)
    /\ \A k \in 1..Len(submitted) : history[k] = submitted[k]
    /\ Len(screen) = Len(submitted)
    /\ \A k \in 1..Len(submitted) :
          /\ screen[k].user = submitted[k].question
          /\ screen[k].assistant = submitted[k].answer
    /\ (ret.called /\ ret.caught # NoExc) =>
          /\ history # <<>>
          /\ history[Len(history)].question = question.s
          /\ history[Len(history)].answer = ret.text
          /\ history[Len(history)].sources = <<>>

C7_Witness ==
    /\ Len(history) = 2
    /\ history[1].question = <<"q">>
    /\ history[1].sources # <<>>
    /\ history[2].question = <<"r", " ">>
    /\ ret.called /\ ret.caught # NoExc
    /\ StartsWith(history[2].answer, ErrorColon)
    /\ history[2].sources = <<>>

\* C10: in a turn the search client is called at most once and the chat client
\* at most once, the chat call comes only after the search call of the turn has
\* returned a non-empty list, and no call follows a failed call.
C10_SingleAttempt ==
    /\ Count(ret.calls, "search") <= 1
    /\ Count(ret.calls, "chat") <= 1
    /\ \A k \in 1..Len(ret.calls) :
          /\ ret.calls[k].op = "chat" =>
                /\ k = 2
                /\ ret.calls[1].op = "search"
                /\ ret.calls[1].ok
                /\ ReturnedList
          /\ ~ret.calls[k].ok => k = Len(ret.calls)
    /\ ~ret.called => ret.calls = <<>>

C10_Witness ==
    /\ ret.called
    /\ Len(ret.calls) = 2
    /\ ret.calls[2].op = "chat"
    /\ ~ret.calls[2].ok
    /\ Len(history) = 2
====
